---- MODULE Spec2Model ----
(***************************************************************************)
(* The bike shop of app.py: the cart_item, order and order_item tables    *)
(* and the request handlers add_to_cart, remove_from_cart, update_cart,   *)
(* checkout, logout and the admin views, behind the login_required and    *)
(* admin_required gates.  The login session lives in the browser's        *)
(* cookie: a request arrives with the user its cookie names, or with      *)
(* none.                                                                   *)
(*                                                                         *)
(* A request is executed by a worker of Reqs.  Every handler is split at  *)
(* its database reads and commits: one step per SELECT of the handler and *)
(* one per db.session.commit().  Under Spec the server handles one        *)
(* request at a time; under SpecConc it is threaded, as app.run starts    *)
(* it, and the steps of two requests interleave.                          *)
(*                                                                         *)
(* Money is counted in cents.  The catalog prices are whole amounts, so   *)
(* that the 5% tax of line 269 is a whole number of cents; the rounding   *)
(* of the Float columns is not modelled.                                  *)
(***************************************************************************)
EXTENDS Integers, Sequences, FiniteSets, TLC

\* ----------------------------------------------------------------- bounds
MaxId == 2
MaxQty == 2
MaxOrders == 2
MaxOrderItems == 2

\* ------------------------------------------------------------ the universe
Users == {"admin", "rider"}
Anonymous == "anonymous"
TabUser == "rider"
Reqs == {"r1", "r2"}
MainWorker == "r1"
Shoppers == {TabUser}
OtherShopper == "admin"
BikeIds == {1, 2}
BikeArgs == BikeIds \cup {3}
Prices == {280000, 250000}
Digits == <<"0", "1", "2", "3", "4", "5", "6", "7", "8", "9">>

\* User.is_admin (line 31): set outside the application for one account.
is_admin(u) == u = "admin"

\* The first two bikes of create_initial_products (lines 91-98): Bike.name, and
\* Bike.price in cents.
bike_name(b) == IF b = 1 THEN "Aero Road Bike" ELSE "Surron E-Bike"
SeedPrices == [b \in BikeIds |-> IF b = 1 THEN 280000 ELSE 450000]

\* ----------------------------------------------------------------- helpers
Max(S) == CHOOSE x \in S : \A y \in S : y <= x
Min(S) == CHOOSE x \in S : \A y \in S : x <= y

\* The rowid SQLite gives an inserted row of an INTEGER PRIMARY KEY table
\* without AUTOINCREMENT: one more than the largest rowid in use.
NextId(table) == IF DOMAIN table = {} THEN 1 ELSE Max(DOMAIN table) + 1

Insert(table, id, row) ==
    [i \in DOMAIN table \cup {id} |-> IF i = id THEN row ELSE table[i]]

Delete(table, ids) == [i \in DOMAIN table \ ids |-> table[i]]

\* The ids of a set in increasing order: the order of a SELECT without ORDER BY
\* over a rowid table.
RECURSIVE Sorted(_)
Sorted(S) == IF S = {} THEN <<>> ELSE <<Min(S)>> \o Sorted(S \ {Min(S)})

Range(s) == {s[i] : i \in DOMAIN s}

RECURSIVE SumSeq(_)
SumSeq(s) == IF s = <<>> THEN 0 ELSE Head(s) + SumSeq(Tail(s))

\* ------------------------------------------------------------------- forms
\* request.form.get(name): None when the field is absent, else its text.
Absent == [present |-> FALSE, value |-> <<>>]
Field(v) == [present |-> TRUE, value |-> v]

\* Python's truth of request.form.get(...): None and "" are false.
Truthy(f) == f.present /\ f.value # <<>>

DigitValue(c) == (CHOOSE i \in DOMAIN Digits : Digits[i] = c) - 1
IsDigit(c) == \E i \in DOMAIN Digits : Digits[i] = c

RECURSIVE DigitsValue(_)
DigitsValue(s) ==
    IF s = <<>> THEN 0
    ELSE 10 * DigitsValue(SubSeq(s, 1, Len(s) - 1)) + DigitValue(s[Len(s)])

\* int(text) of line 245 on a sequence of characters: an optional sign and
\* decimal digits; anything else raises ValueError.
IntOk(s) ==
    LET body == IF s # <<>> /\ Head(s) \in {"-", "+"} THEN Tail(s) ELSE s
    IN  body # <<>> /\ \A i \in DOMAIN body : IsDigit(body[i])
IntOf(s) ==
    IF Head(s) = "-" THEN 0 - DigitsValue(Tail(s))
    ELSE IF Head(s) = "+" THEN DigitsValue(Tail(s))
    ELSE DigitsValue(s)

QuantityForms ==
    {Absent, Field(<<>>), Field(<<"a">>), Field(<<"-", "1">>), Field(<<"0", "2">>)}
        \cup {Field(<<Digits[n + 1]>>) : n \in 0..MaxQty}
CardForms == {Absent, Field(<<>>), Field(<<"A">>)}

\* ------------------------------------------------------------------- state
VARIABLES
    threaded,     \* whether the server handles requests in parallel threads
    price,        \* Bike.price of every catalog row
    cart,         \* table cart_item: id -> [user_id, bike_id, quantity]
    orders,       \* table order: id -> [user_id, total_price]
    order_items,  \* table order_item: id -> [order_id, bike_name, price, quantity]
    req,          \* every worker's request: its place and its local variables
    pre           \* history: the tables as they were when the request began

vars == <<threaded, price, cart, orders, order_items, req, pre>>
db == <<cart, orders, order_items>>

Tables ==
    [price |-> price, cart |-> cart, orders |-> orders, order_items |-> order_items]
NoTables == [price |-> <<>>, cart |-> <<>>, orders |-> <<>>, order_items |-> <<>>]

Idle ==
    [pc |-> "idle", route |-> "", user |-> Anonymous, arg |-> 0,
     method |-> "", form |-> Absent, item |-> 0, quantity |-> 0,
     new_quantity |-> 0,
     items |-> <<>>, total |-> 0, order_id |-> 0, pending |-> <<>>,
     ran |-> FALSE, result |-> ""]

\* ------------------------------------------------------------------- gates
\* @login_required: current_user.is_authenticated.
login_required(u) == u # Anonymous

\* As admin_required, were the flag not looked at.
AdminGateOpen(u) == TRUE

\* @admin_required (lines 75-83): current_user.is_admin.
admin_required(u) == is_admin(u)

\* A request entering route; current_user is the user its cookie names
\* (load_user, lines 69-71), or Anonymous.
Enter(route, u, arg, method, form) ==
    [Idle EXCEPT !.pc = "run", !.route = route, !.user = u, !.arg = arg,
                 !.method = method, !.form = form]

Finish(me, result) == [me EXCEPT !.pc = "done", !.result = result]

\* login_required redirects to the login view before the handler is called.
ToLogin(route, u) == Finish(Enter(route, u, 0, "", Absent), "redirect_login")

\* The handler's body is entered: the gates let the request through.
Run(me) == [me EXCEPT !.ran = TRUE]

\* A worker is free to take a request; a server that is not threaded has one
\* worker, and handles one request at a time.
Free(r) ==
    /\ req[r].pc = "idle"
    /\ threaded \/ r = MainWorker

Begin(r, me) ==
    /\ req' = [req EXCEPT ![r] = me]
    /\ pre' = [pre EXCEPT ![r] = IF threaded THEN NoTables ELSE Tables]

Continue(r, me) ==
    /\ req' = [req EXCEPT ![r] = me]
    /\ UNCHANGED pre

\* The response is sent and the worker is free again.
Respond(r) ==
    /\ req[r].pc = "done"
    /\ req' = [req EXCEPT ![r] = Idle]
    /\ pre' = [pre EXCEPT ![r] = NoTables]
    /\ UNCHANGED <<threaded, price, db>>

\* ------------------------------------------------------------- add_to_cart
\* As FirstCartItem, were the rows not filtered by bike_id.
FirstCartItemOfUser(table, u, b) ==
    LET S == {i \in DOMAIN table : table[i].user_id = u}
    IN  IF S = {} THEN 0 ELSE Min(S)

\* CartItem.query.filter_by(user_id=..., bike_id=...).first() (line 206):
\* the id of the first matching row, 0 for None.
FirstCartItem(table, u, b) ==
    LET S == {i \in DOMAIN table : table[i].user_id = u /\ table[i].bike_id = b}
    IN  IF S = {} THEN 0 ELSE Min(S)

\* As IncrementedQuantity, were the addition done by the UPDATE itself.
IncrementedStored(loaded, stored) == stored + 1

\* cart_item.quantity += 1 (line 209): computed from the quantity the request
\* loaded, whatever the row holds by the time of the UPDATE.
IncrementedQuantity(loaded, stored) == loaded + 1

\* Lines 203-212: the gate and the SELECT.
add_to_cart(r, u, bike_id) ==
    /\ Free(r)
    /\ LET me == Enter("add_to_cart", u, bike_id, "POST", Absent)
           found == FirstCartItem(cart, u, bike_id)
       IN  IF ~login_required(u)
           THEN Begin(r, ToLogin("add_to_cart", u))
           ELSE /\ found # 0 => cart[found].quantity < MaxQty
                /\ found = 0 => NextId(cart) <= MaxId
                /\ Begin(r, [Run(me) EXCEPT
                        !.pc = "add_commit", !.item = found,
                        !.quantity = IF found = 0 THEN 0 ELSE cart[found].quantity])
    /\ UNCHANGED <<threaded, price, db>>

\* Line 214, the row was found: UPDATE cart_item SET quantity=? WHERE id=?.
add_to_cart_update(r) ==
    LET me == req[r] IN
    /\ me.pc = "add_commit"
    /\ me.item # 0
    /\ IF me.item \in DOMAIN cart
       THEN /\ cart' = [cart EXCEPT ![me.item].quantity =
                            IncrementedQuantity(me.quantity, cart[me.item].quantity)]
            /\ Continue(r, Finish(me, "redirect_products"))
       ELSE \* the UPDATE matches no row: StaleDataError, the session rolls back
            /\ UNCHANGED cart
            /\ Continue(r, Finish(me, "error"))
    /\ UNCHANGED <<threaded, price, orders, order_items>>

\* Line 214, no row was found: INSERT INTO cart_item.
add_to_cart_insert(r) ==
    LET me == req[r] IN
    /\ me.pc = "add_commit"
    /\ me.item = 0
    /\ NextId(cart) <= MaxId
    /\ cart' = Insert(cart, NextId(cart),
                      [user_id |-> me.user, bike_id |-> me.arg, quantity |-> 1])
    /\ Continue(r, Finish(me, "redirect_products"))
    /\ UNCHANGED <<threaded, price, orders, order_items>>

\* -------------------------------------------------------- remove_from_cart
\* CartItem.query.filter_by(id=item_id, user_id=current_user.id).first()
\* (lines 232 and 246): the id of the row, 0 for None.
OwnCartItem(table, u, item_id) ==
    IF item_id \in DOMAIN table /\ table[item_id].user_id = u THEN item_id ELSE 0

\* Lines 229-233 and 237: the gate and the SELECT.
remove_from_cart(r, u, item_id) ==
    /\ Free(r)
    /\ LET me == Run(Enter("remove_from_cart", u, item_id, "POST", Absent))
           found == OwnCartItem(cart, u, item_id)
       IN  IF ~login_required(u)
           THEN Begin(r, ToLogin("remove_from_cart", u))
           ELSE IF found = 0
           THEN Begin(r, Finish(me, "redirect_cart"))
           ELSE Begin(r, [me EXCEPT !.pc = "remove_commit", !.item = found,
                                    !.quantity = cart[found].quantity])
    /\ UNCHANGED <<threaded, price, db>>

\* Lines 234-235: DELETE FROM cart_item WHERE id=?.  A DELETE that matches no
\* row is only warned about.
remove_from_cart_commit(r) ==
    LET me == req[r] IN
    /\ me.pc = "remove_commit"
    /\ cart' = Delete(cart, {me.item})
    /\ Continue(r, Finish(me, "redirect_cart"))
    /\ UNCHANGED <<threaded, price, orders, order_items>>

\* ------------------------------------------------------------- update_cart
\* As RemovesLine, were the test new_quantity < 0.
RemovesLineBelowZero(new_quantity) == new_quantity < 0

\* new_quantity <= 0 (line 248): the row is deleted instead of updated.
RemovesLine(new_quantity) == new_quantity <= 0

\* Lines 240-247 and 255: the gate, the form field, int() and the SELECT.
update_cart(r, u, item_id, form) ==
    /\ Free(r)
    /\ LET me == Run(Enter("update_cart", u, item_id, "POST", form))
           found == OwnCartItem(cart, u, item_id)
       IN  IF ~login_required(u)
           THEN Begin(r, ToLogin("update_cart", u))
           ELSE IF ~Truthy(form)
           THEN Begin(r, Finish(me, "redirect_cart"))
           ELSE IF ~IntOk(form.value)
           THEN Begin(r, Finish(me, "error"))      \* ValueError
           ELSE IF found = 0
           THEN Begin(r, Finish(me, "redirect_cart"))
           ELSE /\ IntOf(form.value) <= MaxQty
                /\ Begin(r, [me EXCEPT !.pc = "update_commit", !.item = found,
                                       !.quantity = cart[found].quantity,
                                       !.new_quantity = IntOf(form.value)])
    /\ UNCHANGED <<threaded, price, db>>

\* Lines 248-250 and 254: DELETE FROM cart_item WHERE id=?.
update_cart_delete(r) ==
    LET me == req[r] IN
    /\ me.pc = "update_commit"
    /\ RemovesLine(me.new_quantity)
    /\ cart' = Delete(cart, {me.item})
    /\ Continue(r, Finish(me, "redirect_cart"))
    /\ UNCHANGED <<threaded, price, orders, order_items>>

\* Lines 251-254: UPDATE cart_item SET quantity=? WHERE id=?.  A quantity
\* equal to the loaded one is no change to the object: nothing is written.
update_cart_set(r) ==
    LET me == req[r] IN
    /\ me.pc = "update_commit"
    /\ ~RemovesLine(me.new_quantity)
    /\ IF me.new_quantity = me.quantity
       THEN /\ UNCHANGED cart
            /\ Continue(r, Finish(me, "redirect_cart"))
       ELSE IF me.item \in DOMAIN cart
       THEN /\ cart' = [cart EXCEPT ![me.item].quantity = me.new_quantity]
            /\ Continue(r, Finish(me, "redirect_cart"))
       ELSE \* the UPDATE matches no row: StaleDataError, the session rolls back
            /\ UNCHANGED cart
            /\ Continue(r, Finish(me, "error"))
    /\ UNCHANGED <<threaded, price, orders, order_items>>

\* ---------------------------------------------------------------- checkout
\* CartItem.query...filter_by(user_id=current_user.id).all() (lines 222, 263):
\* the ids of the user's rows.
CartItemsOf(table, u) == Sorted({i \in DOMAIN table : table[i].user_id = u})

\* item.bike of a row whose bike_id names no bike is None.
HasBike(row) == row.bike_id \in BikeIds

RECURSIVE Subtotals(_, _, _)
Subtotals(table, prices, ids) ==
    IF ids = <<>> THEN <<>>
    ELSE <<prices[table[Head(ids)].bike_id] * table[Head(ids)].quantity>>
             \o Subtotals(table, prices, Tail(ids))

\* total (lines 223-225 and 268): the sum of item.bike.price * item.quantity.
CartTotal(table, prices, u) == SumSeq(Subtotals(table, prices, CartItemsOf(table, u)))

\* tax = total * 0.05 (line 269), in cents.
Tax(total) == (total * 5) \div 100

\* As GrandTotal, were the tax left out of the Order's total.
GrandTotalWithoutTax(total) == total

\* grand_total = total + tax (line 270).
GrandTotal(total) == total + Tax(total)

\* As PaymentInfoComplete, were the cardholder name not checked.
PaymentInfoUnchecked(form) == TRUE

\* if not card_name (line 274), negated.
PaymentInfoComplete(form) == Truthy(form)

\* As NewOrderId, were the id of the latest Order taken again.
LatestOrderId(table) == IF DOMAIN table = {} THEN 1 ELSE Max(DOMAIN table)

\* The id of the Order inserted at lines 280-282.
NewOrderId(table) == NextId(table)

RECURSIVE InsertAll(_, _)
InsertAll(table, rows) ==
    IF rows = <<>> THEN table
    ELSE InsertAll(Insert(table, NextId(table), Head(rows)), Tail(rows))

\* Lines 259-276 and 303: the gate, the SELECT, the totals and the form.
checkout(r, u, method, form) ==
    /\ Free(r)
    /\ LET me == Run(Enter("checkout", u, 0, method, form))
           cart_items == CartItemsOf(cart, u)
       IN  IF ~login_required(u)
           THEN Begin(r, ToLogin("checkout", u))
           ELSE IF cart_items = <<>>
           THEN Begin(r, Finish(me, "redirect_cart"))
           ELSE IF \E i \in Range(cart_items) : ~HasBike(cart[i])
           THEN Begin(r, Finish(me, "error"))     \* AttributeError at line 268
           ELSE IF method = "GET"
           THEN Begin(r, Finish([me EXCEPT !.total = GrandTotal(CartTotal(cart, price, u))],
                                "render"))
           ELSE IF ~PaymentInfoComplete(form)
           THEN Begin(r, Finish([me EXCEPT !.total = GrandTotal(CartTotal(cart, price, u))],
                                "render"))
           ELSE /\ Cardinality(DOMAIN orders) < MaxOrders
                /\ Cardinality(DOMAIN order_items) + Len(cart_items) <= MaxOrderItems
                /\ Begin(r, [me EXCEPT !.pc = "checkout_order", !.items = cart_items,
                                       !.total = GrandTotal(CartTotal(cart, price, u))])
    /\ UNCHANGED <<threaded, price, db>>

\* Lines 280-282: INSERT INTO order, and the first commit.  The commit expires
\* every object of the session: each is read again when next used.
checkout_order(r) ==
    LET me == req[r] IN
    /\ me.pc = "checkout_order"
    /\ Cardinality(DOMAIN orders) < MaxOrders
    /\ orders' = Insert(orders, NewOrderId(orders),
                        [user_id |-> me.user, total_price |-> me.total])
    /\ Continue(r, [me EXCEPT !.pc = "checkout_items", !.order_id = NewOrderId(orders)])
    /\ UNCHANGED <<threaded, price, cart, order_items>>

\* Lines 285-292, one turn of the loop: the expired item and its bike are read
\* again by primary key, and the OrderItem waits for the commit.
checkout_item(r) ==
    LET me == req[r]
        id == me.items[Len(me.pending) + 1]
    IN
    /\ me.pc = "checkout_items"
    /\ id \in DOMAIN cart
    /\ HasBike(cart[id])
    /\ Continue(r, [me EXCEPT
           !.pending = Append(@, [order_id |-> me.order_id,
                                  bike_name |-> bike_name(cart[id].bike_id),
                                  price |-> price[cart[id].bike_id],
                                  quantity |-> cart[id].quantity]),
           !.pc = IF Len(me.pending) + 1 = Len(me.items)
                  THEN "checkout_commit" ELSE "checkout_items"])
    /\ UNCHANGED <<threaded, price, db>>

\* Lines 285-292, the row is gone (ObjectDeletedError) or names no bike
\* (AttributeError): the request fails and the session rolls back.
checkout_item_error(r) ==
    LET me == req[r]
        id == me.items[Len(me.pending) + 1]
    IN
    /\ me.pc = "checkout_items"
    /\ ~(id \in DOMAIN cart /\ HasBike(cart[id]))
    /\ Continue(r, Finish(me, "error"))
    /\ UNCHANGED <<threaded, price, db>>

\* Lines 295-298: INSERT INTO order_item for every pending OrderItem, DELETE
\* FROM cart_item WHERE id=? for every item, in one commit.
checkout_commit(r) ==
    LET me == req[r] IN
    /\ me.pc = "checkout_commit"
    /\ Cardinality(DOMAIN order_items) + Len(me.pending) <= MaxOrderItems
    /\ order_items' = InsertAll(order_items, me.pending)
    /\ cart' = Delete(cart, Range(me.items))
    /\ Continue(r, Finish(me, "redirect_products"))
    /\ UNCHANGED <<threaded, price, orders>>

\* ------------------------------------------------------------- other views
\* products (lines 137-141).
products(r, u) ==
    /\ Free(r)
    /\ IF ~login_required(u)
       THEN Begin(r, ToLogin("products", u))
       ELSE Begin(r, Finish(Run(Enter("products", u, 0, "GET", Absent)), "render"))
    /\ UNCHANGED <<threaded, price, db>>

\* view_cart (lines 219-226).
view_cart(r, u) ==
    /\ Free(r)
    /\ LET me == Run(Enter("view_cart", u, 0, "GET", Absent))
       IN  IF ~login_required(u)
           THEN Begin(r, ToLogin("view_cart", u))
           ELSE IF \E i \in Range(CartItemsOf(cart, u)) : ~HasBike(cart[i])
           THEN Begin(r, Finish(me, "error"))     \* AttributeError at line 225
           ELSE Begin(r, Finish([me EXCEPT !.total = CartTotal(cart, price, u)], "render"))
    /\ UNCHANGED <<threaded, price, db>>

\* logout (lines 194-199).
logout(r, u) ==
    /\ Free(r)
    /\ IF ~login_required(u)
       THEN Begin(r, ToLogin("logout", u))
       ELSE Begin(r, Finish(Run(Enter("logout", u, 0, "GET", Absent)), "redirect_login"))
    /\ UNCHANGED <<threaded, price, db>>

\* The admin views (lines 308-334): login_required is the outer gate,
\* admin_required the inner one, and the view's query is in its body.
AdminRoutes == {"admin_dashboard", "admin_users", "admin_sales"}

admin_view(r, u, route) ==
    /\ Free(r)
    /\ LET me == Enter(route, u, 0, "GET", Absent)
       IN  IF ~login_required(u)
           THEN Begin(r, ToLogin(route, u))
           ELSE IF ~admin_required(u)
           THEN Begin(r, Finish(me, "redirect_products"))
           ELSE Begin(r, Finish(Run(me), "render"))
    /\ UNCHANGED <<threaded, price, db>>

\* Bike.price (line 38) is an ordinary column: a price is changed in the
\* database, between two requests.
ChangePrice(b, p) ==
    /\ \A r \in Reqs : req[r].pc \in {"idle", "done"}
    /\ p # price[b]
    /\ price' = [price EXCEPT ![b] = p]
    /\ UNCHANGED <<threaded, db, req, pre>>

\* ---------------------------------------------------------- specifications
Init ==
    /\ threaded = FALSE
    /\ price = SeedPrices
    /\ cart = <<>>
    /\ orders = <<>>
    /\ order_items = <<>>
    /\ req = [r \in Reqs |-> Idle]
    /\ pre = [r \in Reqs |-> NoTables]

\* The carts add_to_cart, update_cart and remove_from_cart leave when the
\* requests of TabUser are handled one at a time: at most one row for a bike.
CartRows == [user_id : {TabUser}, bike_id : BikeIds, quantity : 1..MaxQty]
SerialCarts ==
    UNION {{c \in [ids -> CartRows] :
                \A i, j \in ids : i # j => c[i].bike_id # c[j].bike_id}
           : ids \in SUBSET (1..MaxId)}

InitConc ==
    /\ threaded = TRUE
    /\ price = SeedPrices
    /\ cart \in SerialCarts
    /\ orders = <<>>
    /\ order_items = <<>>
    /\ req = [r \in Reqs |-> Idle]
    /\ pre = [r \in Reqs |-> NoTables]

\* Requests of every browser, signed in or not, handled one at a time.  The
\* cart of a second user holds one line at most.  No row that checkout has
\* read is gone when it reads it again, so that checkout_item_error has no
\* part here.
Next ==
    \E r \in Reqs :
        \/ \E u \in Shoppers \cup {Anonymous}, b \in BikeArgs : add_to_cart(r, u, b)
        \/ add_to_cart(r, OtherShopper, 1)
        \/ add_to_cart_update(r)
        \/ add_to_cart_insert(r)
        \/ \E u \in Shoppers \cup {Anonymous}, i \in 1..MaxId : remove_from_cart(r, u, i)
        \/ remove_from_cart_commit(r)
        \/ \E u \in Shoppers \cup {Anonymous}, i \in 1..MaxId, f \in QuantityForms :
               update_cart(r, u, i, f)
        \/ update_cart_delete(r)
        \/ update_cart_set(r)
        \/ \E u \in Shoppers \cup {Anonymous}, m \in {"GET", "POST"}, f \in CardForms :
               checkout(r, u, m, f)
        \/ checkout_order(r)
        \/ checkout_item(r)
        \/ checkout_commit(r)
        \/ \E u \in Users \cup {Anonymous} : products(r, u)
        \/ \E u \in Users \cup {Anonymous} : view_cart(r, u)
        \/ \E u \in Users \cup {Anonymous} : logout(r, u)
        \/ \E u \in Users \cup {Anonymous}, route \in AdminRoutes : admin_view(r, u, route)
        \/ \E p \in Prices : ChangePrice(1, p)
        \/ Respond(r)

\* Two tabs of one signed-in user, each sending one request; the two requests
\* are handled in parallel.
NextConc ==
    \E r \in Reqs :
        \/ \E b \in BikeIds : add_to_cart(r, TabUser, b)
        \/ add_to_cart_update(r)
        \/ add_to_cart_insert(r)
        \/ \E i \in 1..MaxId : remove_from_cart(r, TabUser, i)
        \/ remove_from_cart_commit(r)
        \/ \E i \in 1..MaxId, n \in 0..MaxQty :
               update_cart(r, TabUser, i, Field(<<Digits[n + 1]>>))
        \/ update_cart_delete(r)
        \/ update_cart_set(r)
        \/ checkout(r, TabUser, "POST", Field(<<"A">>))
        \/ checkout_order(r)
        \/ checkout_item(r)
        \/ checkout_item_error(r)
        \/ checkout_commit(r)

Spec == Init /\ [][Next]_vars
SpecConc == InitConc /\ [][NextConc]_vars

\* ------------------------------------------------------------------ claims
Ended(r, route) == req[r].pc = "done" /\ req[r].route = route

SameTables(p) == cart = p.cart /\ orders = p.orders /\ order_items = p.order_items

ItemsOfOrder(table, o) == {i \in DOMAIN table : table[i].order_id = o}

NoDuplicateLines(table) ==
    \A i, j \in DOMAIN table :
        i # j => ~(table[i].user_id = table[j].user_id /\ table[i].bike_id = table[j].bike_id)

\* The OrderItem that snapshots row of the cart, at the prices given.
SnapshotOf(row, prices, o) ==
    [order_id |-> o, bike_name |-> bike_name(row.bike_id),
     price |-> prices[row.bike_id], quantity |-> row.quantity]

\* C1: a checkout POST that succeeds has created exactly one Order, owned by
\* the user, whose total price is the cart total at the current prices plus 5%;
\* it has created exactly one OrderItem per cart line, with the line's bike
\* name, unit price and quantity; and the user's cart has no line left.
C1_CheckoutCreatesOrder ==
    \A r \in Reqs :
        Ended(r, "checkout") /\ req[r].result = "redirect_products" =>
            LET u == req[r].user
                p == pre[r]
                lines == CartItemsOf(p.cart, u)
                new == DOMAIN orders \ DOMAIN p.orders
                newItems == Sorted(DOMAIN order_items \ DOMAIN p.order_items)
            IN  /\ req[r].method = "POST" /\ u # Anonymous /\ lines # <<>>
                /\ Truthy(req[r].form)
                /\ Cardinality(new) = 1
                /\ \A o \in DOMAIN p.orders : o \in DOMAIN orders /\ orders[o] = p.orders[o]
                /\ \A o \in new :
                       /\ orders[o].user_id = u
                       /\ 100 * orders[o].total_price = 105 * CartTotal(p.cart, p.price, u)
                       /\ Len(newItems) = Len(lines)
                       /\ \A k \in 1..Len(lines) :
                              order_items[newItems[k]] = SnapshotOf(p.cart[lines[k]], p.price, o)
                /\ \A i \in DOMAIN p.order_items :
                       i \in DOMAIN order_items /\ order_items[i] = p.order_items[i]
                /\ CartItemsOf(cart, u) = <<>>

\* The checkout of the cart {Aero Road Bike: 2 at 2800.00, Surron E-Bike: 1 at
\* 4500.00} has succeeded: the total is 10100.00, the tax 505.00, the Order's
\* total 10605.00.
C1_Witness ==
    \E r \in Reqs :
        /\ Ended(r, "checkout") /\ req[r].result = "redirect_products"
        /\ Len(CartItemsOf(pre[r].cart, req[r].user)) = 2
        /\ CartTotal(pre[r].cart, pre[r].price, req[r].user) = 1010000
        /\ orders[req[r].order_id].total_price = 1060500
        /\ Cardinality(ItemsOfOrder(order_items, req[r].order_id)) = 2

\* C2: a checkout of a signed-in user whose cart has no line (EmptyCart), or a
\* checkout POST without a cardholder name (IncompletePaymentInfo), creates no
\* Order and no OrderItem and leaves every cart line as it was.
C2_FailedCheckoutChangesNothing ==
    \A r \in Reqs :
        Ended(r, "checkout") /\ req[r].user # Anonymous =>
            LET empty == CartItemsOf(pre[r].cart, req[r].user) = <<>>
                incomplete == req[r].method = "POST" /\ ~Truthy(req[r].form)
            IN  /\ empty \/ incomplete =>
                    SameTables(pre[r]) /\ req[r].result # "redirect_products"
                /\ empty => req[r].result = "redirect_cart"

\* A checkout POST of a cart with a line, sent without a cardholder name, has
\* rendered the form again.
C2_Witness ==
    \E r \in Reqs :
        /\ Ended(r, "checkout") /\ req[r].user # Anonymous
        /\ req[r].method = "POST" /\ req[r].form = Field(<<>>)
        /\ CartItemsOf(pre[r].cart, req[r].user) # <<>>
        /\ req[r].result = "render"
        /\ req[r].total > 0

\* C3: with the requests handled one after another, add_to_cart(user, bike)
\* adds exactly 1 to the quantity of the (user, bike) line when there is one
\* and creates no line; otherwise it creates exactly one line of quantity 1.
\* So no two lines of the cart are for the same (user, bike).
C3_AddIncrementsOrCreates ==
    /\ NoDuplicateLines(cart)
    /\ \A r \in Reqs :
        Ended(r, "add_to_cart") /\ req[r].user # Anonymous =>
            LET u == req[r].user
                b == req[r].arg
                old == pre[r].cart
                S == {i \in DOMAIN old : old[i].user_id = u /\ old[i].bike_id = b}
            IN  /\ req[r].result = "redirect_products"
                /\ IF S # {}
                   THEN \E i \in S : cart = [old EXCEPT ![i].quantity = @ + 1]
                   ELSE \E i \in DOMAIN cart \ DOMAIN old :
                            cart = Insert(old, i, [user_id |-> u, bike_id |-> b, quantity |-> 1])

\* The second of two adds of a bike to an empty cart has ended: one line, of
\* quantity 2.
C3_Witness ==
    \E r \in Reqs :
        /\ Ended(r, "add_to_cart")
        /\ Cardinality(DOMAIN pre[r].cart) = 1
        /\ \A i \in DOMAIN pre[r].cart :
               pre[r].cart[i].bike_id = req[r].arg /\ pre[r].cart[i].quantity = 1
        /\ Cardinality(DOMAIN cart) = 1
        /\ \A i \in DOMAIN cart : cart[i].quantity = 2

\* C4: every stored cart line has a quantity of at least 1, and an update_cart
\* of a line of the user with a new quantity <= 0 has deleted the line.
C4_QuantityAtLeastOne ==
    /\ \A i \in DOMAIN cart : cart[i].quantity >= 1
    /\ \A r \in Reqs :
        Ended(r, "update_cart") /\ req[r].user # Anonymous
            /\ Truthy(req[r].form) /\ IntOk(req[r].form.value)
            /\ IntOf(req[r].form.value) <= 0
            /\ OwnCartItem(pre[r].cart, req[r].user, req[r].arg) # 0
        => req[r].arg \notin DOMAIN cart

\* An update_cart of a line to quantity 0 has ended, and the line is gone.
C4_Witness ==
    \E r \in Reqs :
        /\ Ended(r, "update_cart")
        /\ req[r].form = Field(<<"0">>)
        /\ req[r].arg \in DOMAIN pre[r].cart
        /\ req[r].arg \notin DOMAIN cart

\* C5: add_to_cart of a bike id that is not in the catalog fails and leaves
\* the cart unchanged; no cart line names a bike that does not exist.
C5_UnknownBikeRejected ==
    /\ \A i \in DOMAIN cart : cart[i].bike_id \in BikeIds
    /\ \A r \in Reqs :
        Ended(r, "add_to_cart") /\ req[r].user # Anonymous /\ req[r].arg \notin BikeIds
        => cart = pre[r].cart /\ req[r].result # "redirect_products"

\* C6: an Order, once it exists, keeps its owner and total price, and each of
\* its OrderItems keeps its bike name, price and quantity, whatever happens
\* next: a change of a bike's price, a cart operation, another checkout.
C6_OrdersAreFrozen ==
    [][/\ \A o \in DOMAIN orders : o \in DOMAIN orders' /\ orders'[o] = orders[o]
       /\ \A i \in DOMAIN order_items :
              i \in DOMAIN order_items' /\ order_items'[i] = order_items[i]]_vars

\* An OrderItem of the Aero Road Bike holds a price the bike no longer has, and
\* a second Order was created after the first.
C6_Witness ==
    /\ Cardinality(DOMAIN orders) = 2
    /\ \E i \in DOMAIN order_items :
           /\ order_items[i].order_id = 1
           /\ order_items[i].bike_name = bike_name(1)
           /\ order_items[i].price # price[1]

\* C7: there is at most one cart line for a (user, bike) pair, also when two
\* requests of the user interleave at their reads and commits.
C7_OneLinePerUserAndBike == NoDuplicateLines(cart)

\* C8: a request without a signed-in user to a login_required route is
\* redirected to login before the handler runs and changes no table; a request
\* of a signed-in user who is no admin to an admin route is redirected to the
\* catalog without the view, and its query, being run.
LoginRequiredRoutes ==
    {"products", "view_cart", "add_to_cart", "remove_from_cart", "update_cart",
     "checkout", "logout"} \cup AdminRoutes

C8_GatesShortCircuit ==
    \A r \in Reqs :
        req[r].pc = "done" =>
            /\ req[r].user = Anonymous /\ req[r].route \in LoginRequiredRoutes =>
                   req[r].result = "redirect_login" /\ ~req[r].ran /\ SameTables(pre[r])
            /\ req[r].user # Anonymous /\ ~is_admin(req[r].user)
                   /\ req[r].route \in AdminRoutes =>
                   req[r].result = "redirect_products" /\ ~req[r].ran /\ SameTables(pre[r])

\* A signed-in user who is no admin has asked for the sales view and was sent
\* to the catalog.
C8_Witness ==
    \E r \in Reqs :
        /\ Ended(r, "admin_sales")
        /\ req[r].user = "rider"
        /\ req[r].result = "redirect_products"

\* C9: when a checkout that has persisted its Order ends, by a failure between
\* its two commits or by success, the Order has one OrderItem per purchased
\* cart line; and the checkout has cleared the cart only if it has.
C9_OrderIntactAfterFailure ==
    \A r \in Reqs :
        Ended(r, "checkout") /\ req[r].order_id # 0 =>
            /\ req[r].order_id \in DOMAIN orders
            /\ Cardinality(ItemsOfOrder(order_items, req[r].order_id)) = Len(req[r].items)

\* C10: two add_to_cart requests of the user for a bike whose line they both
\* loaded with quantity q have both succeeded, and the line holds q + 1: one
\* of the two additions is lost.
BothAdded(i, q) ==
    \A r \in Reqs :
        /\ Ended(r, "add_to_cart")
        /\ req[r].result = "redirect_products"
        /\ req[r].item = i
        /\ req[r].quantity = q

C10_LostUpdate ==
    \A i \in DOMAIN cart, q \in 1..MaxQty :
        BothAdded(i, q) => cart[i].quantity = q + 1

\* Both requests loaded the line at quantity 1 and both have succeeded: the
\* line holds 2, not 3.
C10_Witness ==
    \E i \in DOMAIN cart :
        /\ BothAdded(i, 1)
        /\ req["r1"].arg = req["r2"].arg
        /\ cart[i].quantity = 2
====
